---- MODULE Spec2Model ----
(***************************************************************************)
(* The SQS URL producer (package main): the polling goroutine of main,     *)
(* processURLs, sendBatch and handleShutdown, over the urls table and the   *)
(* SQS queue.                                                               *)
(*                                                                          *)
(* The worker goroutine is a sequential process whose position is pc:       *)
(*   "select"    main, the select at the top of the for loop                *)
(*   "query"     processURLs, the db query of pending rows is in flight     *)
(*   "loop"      processURLs, top of the body of  for i, url := range urls  *)
(*   "sendBatch" sendBatch, the loop condition  attempt < RetryAttempts     *)
(*   "call"      sendBatch, SendMessageBatch is in flight                   *)
(*   "backoff"   sendBatch, time.Sleep(RetryBackoff * (attempt+1))          *)
(*   "mark"      processURLs, the loop of db updates after a sent batch     *)
(*   "sleep"     main, time.Sleep(PollingInterval)                          *)
(*   "stopped"   the goroutine has returned                                 *)
(* Time is counted in seconds by the variable timer, which a sleep sets     *)
(* and Tick counts down, TickSeconds at a time; a sleep ends only when its  *)
(* timer reaches 0.                                                         *)
(* Go's slices are indexed from 0, the sequences here from 1.               *)
(***************************************************************************)
EXTENDS Integers, Sequences, FiniteSets, TLC

(* ----------------------------- constants of the program ---------------- *)

\* part_000:24 sets BatchSize = 10; the model runs it scaled down so that
\* one tick of MaxRecords rows still makes full chunks and a smaller last one.
BatchSize == 2

RetryAttempts == 3

\* in seconds
RetryBackoff == 2

DatabaseLimit == 100

\* in seconds
PollingInterval == 10

(* ----------------------------- bounds of the model --------------------- *)

\* rows of the urls table
MaxRecords == 5

\* failures of the store and of the queue in one run (a call that fails
\* because ctx is cancelled is not counted)
MaxFailures == 3

\* termination signals delivered to the process
MaxSignals == 2

\* seconds that pass in one step of the clock
TickSeconds == 2

\* the rows, numbered in the order in which the store's scan returns them
Ids == 1..MaxRecords

\* the values of the url column
Payloads == {"u1", "u2"}

VARIABLES
    store,         \* the urls table: row id -> [url, processed]
    ctxDone,       \* ctx of main is cancelled
    hsPc,          \* handleShutdown: "waiting" on <-c, or "done"
    signals,       \* termination signals delivered so far
    pc,            \* position of the worker goroutine
    urls,          \* processURLs: the fetched rows
    i,             \* processURLs: index of the range loop
    batch,         \* processURLs: the entries being collected / sent
    messageCount,  \* main: the counter shared with processURLs
    attempt,       \* sendBatch: the loop variable
    callCtxDone,   \* ctx was already cancelled when SendMessageBatch was called
    j,             \* processURLs: index of the update loop over batch
    timer,         \* seconds left of the current time.Sleep
    failures,      \* store and queue failures so far
    queueCount,    \* the queue: row id -> number of accepted batches holding it
    batchRecs,     \* history: the row ids of the entries of batch
    reportedOk,    \* history: rows of a chunk for which sendBatch returned nil
    chunks,        \* history: the chunks of the current tick, see NewChunk
    tickFetch,     \* history: how the last completed query ended
    tickStore,     \* history: the table when the current tick began
    tickCount,     \* history: messageCount when the current tick began
    cancelDuring   \* history: the pc at which cancel() was called, while the
                   \* worker has not moved since (Tick aside); else "none"

vars == <<store, ctxDone, hsPc, signals, pc, urls, i, batch, messageCount,
          attempt, callCtxDone, j, timer, failures, queueCount, batchRecs,
          reportedOk, chunks, tickFetch, tickStore, tickCount, cancelDuring>>

workerVars == <<pc, urls, i, batch, messageCount, attempt, callCtxDone, j,
                timer, batchRecs>>

historyVars == <<reportedOk, chunks, tickFetch, tickStore, tickCount>>

shutdownVars == <<ctxDone, hsPc, signals>>

Max(a, b) == IF a > b THEN a ELSE b

Min(a, b) == IF a < b THEN a ELSE b

\* the elements of the sequence s
RECURSIVE SeqSet(_)
SeqSet(s) == IF s = <<>> THEN {} ELSE {Head(s)} \cup SeqSet(Tail(s))

(* ----------------------------- the store ------------------------------- *)

\* rows with processed = false
Pending(st) == {id \in Ids : ~st[id].processed}

\* the first n elements of the set S of row ids, in scan order
RECURSIVE FirstRows(_, _)
FirstRows(S, n) ==
    IF n = 0 \/ S = {} THEN <<>>
    ELSE LET m == CHOOSE x \in S : \A y \in S : x <= y
         IN  <<m>> \o FirstRows(S \ {m}, n - 1)

\* db.Limit(DatabaseLimit).Where("processed = ?", false).Find(&urls)
Find(st) ==
    LET rows == FirstRows(Pending(st), Min(DatabaseLimit, Cardinality(Pending(st))))
    IN  [k \in 1..Len(rows) |-> [ID |-> rows[k], URL |-> st[rows[k]].url]]

\* a variant that writes the whole column: rows of other urls are reset
UpdateEveryRow(st, body) ==
    [id \in Ids |-> [st[id] EXCEPT !.processed = (st[id].url = body)]]

\* a variant that flips the flag of the rows with this url
UpdateToggle(st, body) ==
    [id \in Ids |-> IF st[id].url = body
                    THEN [st[id] EXCEPT !.processed = ~@]
                    ELSE st[id]]

\* a variant that changes no row
UpdateNothing(st, body) == st

\* db.Model(&models.URLs{}).Where("url = ?", body).Update("processed", true)
Update(st, body) ==
    [id \in Ids |-> IF st[id].url = body
                    THEN [st[id] EXCEPT !.processed = TRUE]
                    ELSE st[id]]

(* ----------------------------- the initial state ----------------------- *)

\* main up to the start of the goroutine (lines 49-59): the table holds
\* MaxRecords rows, none processed; url is declared "not null", not unique.
\* The first row's url is fixed, the others take every value: the two urls
\* are interchangeable.
Init ==
    /\ store \in [Ids -> [url : Payloads, processed : {FALSE}]]
    /\ store[1].url = "u1"
    /\ ctxDone = FALSE
    /\ hsPc = "waiting"
    /\ signals = 0
    /\ pc = "select"
    /\ urls = <<>>
    /\ i = 0
    /\ batch = <<>>
    /\ messageCount = 0
    /\ attempt = 0
    /\ callCtxDone = FALSE
    /\ j = 0
    /\ timer = 0
    /\ failures = 0
    /\ queueCount = [id \in Ids |-> 0]
    /\ batchRecs = <<>>
    /\ reportedOk = {}
    /\ chunks = <<>>
    /\ tickFetch = "none"
    /\ tickStore = store
    /\ tickCount = 0
    /\ cancelDuring = "none"

(* ----------------------------- main ------------------------------------ *)

\* a variant with break in place of return: it leaves the select only
OnCtxDoneBreak == "sleep"

\* where the worker goes in the case <-ctx.Done(): return ends the goroutine
OnCtxDone == "stopped"

\* case <-ctx.Done(): return
MainSelectDone ==
    /\ pc = "select"
    /\ ctxDone
    /\ pc' = OnCtxDone
    /\ UNCHANGED <<store, urls, i, batch, messageCount, attempt, callCtxDone,
                   j, timer, failures, queueCount, batchRecs>>
    /\ UNCHANGED historyVars
    /\ UNCHANGED shutdownVars
    /\ cancelDuring' = "none"

\* default: processURLs(...), up to the call of the query on its first line
MainSelectDefault ==
    /\ pc = "select"
    /\ ~ctxDone
    /\ pc' = "query"
    /\ urls' = <<>>
    /\ i' = 0
    /\ batch' = <<>>
    /\ batchRecs' = <<>>
    /\ chunks' = <<>>
    /\ tickStore' = store
    /\ tickCount' = messageCount
    /\ UNCHANGED <<store, messageCount, attempt, callCtxDone, j, timer,
                   failures, queueCount, reportedOk, tickFetch>>
    /\ UNCHANGED shutdownVars
    /\ cancelDuring' = "none"

\* time.Sleep(PollingInterval) has elapsed; back to the top of the for loop
PollDone ==
    /\ pc = "sleep"
    /\ timer = 0
    /\ pc' = "select"
    /\ UNCHANGED <<store, urls, i, batch, messageCount, attempt, callCtxDone,
                   j, timer, failures, queueCount, batchRecs>>
    /\ UNCHANGED historyVars
    /\ UNCHANGED shutdownVars
    /\ cancelDuring' = "none"

\* TickSeconds of a time.Sleep pass (the sleep of main or of sendBatch)
Tick ==
    /\ pc \in {"sleep", "backoff"}
    /\ timer > 0
    /\ timer' = Max(0, timer - TickSeconds)
    /\ UNCHANGED <<store, pc, urls, i, batch, messageCount, attempt,
                   callCtxDone, j, failures, queueCount, batchRecs>>
    /\ UNCHANGED historyVars
    /\ UNCHANGED shutdownVars
    /\ UNCHANGED cancelDuring

(* ----------------------------- processURLs ----------------------------- *)

\* a variant in which a failed query ends the goroutine
OnQueryErrorExit == "stopped"

\* where the worker goes when the query fails: return, then main's sleep
OnQueryError == "sleep"

\* if result.Error != nil { log; return }
QueryError ==
    /\ pc = "query"
    /\ failures < MaxFailures
    /\ failures' = failures + 1
    /\ pc' = OnQueryError
    /\ timer' = PollingInterval
    /\ tickFetch' = "error"
    /\ UNCHANGED <<store, urls, i, batch, messageCount, attempt, callCtxDone,
                   j, queueCount, batchRecs, reportedOk, chunks, tickStore,
                   tickCount>>
    /\ UNCHANGED shutdownVars
    /\ cancelDuring' = "none"

\* if len(urls) == 0 { log; return }
QueryEmpty ==
    /\ pc = "query"
    /\ Find(store) = <<>>
    /\ pc' = "sleep"
    /\ timer' = PollingInterval
    /\ tickFetch' = "empty"
    /\ UNCHANGED <<store, urls, i, batch, messageCount, attempt, callCtxDone,
                   j, failures, queueCount, batchRecs, reportedOk, chunks,
                   tickStore,
                   tickCount>>
    /\ UNCHANGED shutdownVars
    /\ cancelDuring' = "none"

\* the query returned rows: enter the range loop
QueryRows ==
    /\ pc = "query"
    /\ Find(store) # <<>>
    /\ urls' = Find(store)
    /\ i' = 1
    /\ pc' = "loop"
    /\ tickFetch' = "rows"
    /\ UNCHANGED <<store, batch, messageCount, attempt, callCtxDone, j, timer,
                   failures, queueCount, batchRecs, reportedOk, chunks,
                   tickStore,
                   tickCount>>
    /\ UNCHANGED shutdownVars
    /\ cancelDuring' = "none"

\* a variant that numbers every entry alike
EntryFixedId(count, url) ==
    [Id |-> <<"msg-", 1>>, MessageBody |-> url,
     MessageGroupId |-> <<"group-", 1>>]

\* types.SendMessageBatchRequestEntry of lines 107-111
Entry(count, url) ==
    [Id |-> <<"msg-", count>>, MessageBody |-> url,
     MessageGroupId |-> <<"group-", count>>]

\* a variant that sends full batches only
FlushOnFullOnly(len, idx, n) == len = BatchSize

\* if len(batch) == BatchSize || i == len(urls)-1
Flush(len, idx, n) == len = BatchSize \/ idx = n

\* the range loop after the body for index idx of n: next row, or return
RangeNext(idx, n) == IF idx < n THEN "loop" ELSE "return"

\* a variant in which a failed batch ends the tick
SendErrorReturn(idx, n) == "return"

\* the statement reached after the branch  err != nil  of line 115
SendErrorNext(idx, n) == RangeNext(idx, n)

\* the record kept of one chunk handed to sendBatch: the rows of its
\* entries, the result of each SendMessageBatch call (TRUE: err == nil), the
\* seconds of each backoff sleep, what sendBatch returned, and the result of
\* each db update (TRUE: no error)
NewChunk(recs) ==
    [recs |-> recs, calls |-> <<>>, sleeps |-> <<>>, res |-> "pending",
     marks |-> <<>>]

\* go on with the range loop, or return to main and start its sleep
Continue(next) ==
    /\ pc' = IF next = "loop" THEN "loop" ELSE "sleep"
    /\ i' = IF next = "loop" THEN i + 1 ELSE i
    /\ timer' = IF next = "loop" THEN 0 ELSE PollingInterval

\* lines 105-114: count, append the entry, decide whether to send
LoopBody ==
    /\ pc = "loop"
    /\ messageCount' = messageCount + 1
    /\ LET b  == Append(batch, Entry(messageCount + 1, urls[i].URL))
           br == Append(batchRecs, urls[i].ID)
       IN  IF Flush(Len(b), i, Len(urls))
           THEN /\ batch' = b
                /\ batchRecs' = br
                /\ pc' = "sendBatch"
                /\ attempt' = 0
                /\ chunks' = Append(chunks, NewChunk(br))
                /\ UNCHANGED <<i, timer>>
           ELSE /\ Continue(RangeNext(i, Len(urls)))
                /\ batch' = IF RangeNext(i, Len(urls)) = "loop" THEN b ELSE <<>>
                /\ batchRecs' = IF RangeNext(i, Len(urls)) = "loop" THEN br ELSE <<>>
                /\ UNCHANGED <<attempt, chunks>>
    /\ UNCHANGED <<store, urls, callCtxDone, j, failures, queueCount,
                   reportedOk, tickFetch, tickStore,
                   tickCount>>
    /\ UNCHANGED shutdownVars
    /\ cancelDuring' = "none"

(* ----------------------------- sendBatch ------------------------------- *)

\* a variant with the loop bound off by one
OneMoreAttempt(a) == a <= RetryAttempts

\* for attempt := 0; attempt < RetryAttempts; attempt++
MoreAttempts(a) == a < RetryAttempts

\* a variant that doubles the sleep with every attempt
BackoffExponential(a) == RetryBackoff * (2 ^ a)

\* time.Duration(attempt+1) * RetryBackoff, in seconds
Backoff(a) == RetryBackoff * (a + 1)

\* the history of the chunk being sent
Cur == Len(chunks)

\* the loop condition holds: sqsClient.SendMessageBatch(ctx, ...) is called
SendAttempt ==
    /\ pc = "sendBatch"
    /\ MoreAttempts(attempt)
    /\ pc' = "call"
    /\ callCtxDone' = ctxDone
    /\ UNCHANGED <<store, urls, i, batch, messageCount, attempt, j, timer,
                   failures, queueCount, batchRecs>>
    /\ UNCHANGED historyVars
    /\ UNCHANGED shutdownVars
    /\ cancelDuring' = "none"

\* the queue takes the entries of the batch
Accept(q, recs) ==
    [id \in Ids |-> IF id \in SeqSet(recs) THEN q[id] + 1 ELSE q[id]]

\* err == nil: the queue accepted the batch; return nil, and processURLs
\* enters the loop of updates. A call made with a cancelled ctx never
\* reaches the queue.
CallOk ==
    /\ pc = "call"
    /\ ~callCtxDone
    /\ queueCount' = Accept(queueCount, batchRecs)
    /\ reportedOk' = reportedOk \cup SeqSet(batchRecs)
    /\ chunks' = [chunks EXCEPT ![Cur].calls = Append(@, TRUE),
                                ![Cur].res = "ok"]
    /\ pc' = "mark"
    /\ j' = 1
    /\ UNCHANGED <<store, urls, i, batch, messageCount, attempt, callCtxDone,
                   timer, failures, batchRecs, tickFetch, tickStore,
                   tickCount>>
    /\ UNCHANGED shutdownVars
    /\ cancelDuring' = "none"

\* err != nil and the queue did not take the batch: the queue refused it
\* (a failure of the queue), or ctx is cancelled and the SDK gave up the call
CallRejected ==
    /\ pc = "call"
    /\ \/ /\ ctxDone
          /\ UNCHANGED failures
       \/ /\ ~ctxDone
          /\ failures < MaxFailures
          /\ failures' = failures + 1
    /\ chunks' = [chunks EXCEPT ![Cur].calls = Append(@, FALSE),
                                ![Cur].sleeps = Append(@, Backoff(attempt))]
    /\ pc' = "backoff"
    /\ timer' = Backoff(attempt)
    /\ UNCHANGED <<store, urls, i, batch, messageCount, attempt, callCtxDone,
                   j, queueCount, batchRecs, reportedOk, tickFetch, tickStore,
                   tickCount>>
    /\ UNCHANGED shutdownVars
    /\ cancelDuring' = "none"

\* err != nil although the queue took the batch: the response was lost (a
\* failure of the queue), or ctx was cancelled while the call was in flight
CallLost ==
    /\ pc = "call"
    /\ ~callCtxDone
    /\ \/ /\ ctxDone
          /\ UNCHANGED failures
       \/ /\ ~ctxDone
          /\ failures < MaxFailures
          /\ failures' = failures + 1
    /\ queueCount' = Accept(queueCount, batchRecs)
    /\ chunks' = [chunks EXCEPT ![Cur].calls = Append(@, FALSE),
                                ![Cur].sleeps = Append(@, Backoff(attempt))]
    /\ pc' = "backoff"
    /\ timer' = Backoff(attempt)
    /\ UNCHANGED <<store, urls, i, batch, messageCount, attempt, callCtxDone,
                   j, batchRecs, reportedOk, tickFetch, tickStore,
                   tickCount>>
    /\ UNCHANGED shutdownVars
    /\ cancelDuring' = "none"

\* the sleep of line 140 has elapsed: attempt++
BackoffDone ==
    /\ pc = "backoff"
    /\ timer = 0
    /\ attempt' = attempt + 1
    /\ pc' = "sendBatch"
    /\ UNCHANGED <<store, urls, i, batch, messageCount, callCtxDone, j, timer,
                   failures, queueCount, batchRecs>>
    /\ UNCHANGED historyVars
    /\ UNCHANGED shutdownVars
    /\ cancelDuring' = "none"

\* the loop condition fails: return fmt.Errorf(...); processURLs logs,
\* resets batch and goes on with the range loop
SendGiveUp ==
    /\ pc = "sendBatch"
    /\ ~MoreAttempts(attempt)
    /\ chunks' = [chunks EXCEPT ![Cur].res = "failed"]
    /\ batch' = <<>>
    /\ batchRecs' = <<>>
    /\ Continue(SendErrorNext(i, Len(urls)))
    /\ UNCHANGED <<store, urls, messageCount, attempt, callCtxDone, j,
                   failures, queueCount, reportedOk, tickFetch, tickStore,
                   tickCount>>
    /\ UNCHANGED shutdownVars
    /\ cancelDuring' = "none"

(* ----------------------------- processURLs, the updates ---------------- *)

\* after the update of entry k of a batch of n entries: the next entry, or
\* batch = nil and on with the range loop
MarkStep(k, n) ==
    IF k < n
    THEN /\ j' = k + 1
         /\ UNCHANGED <<pc, i, timer, batch, batchRecs>>
    ELSE /\ j' = 0
         /\ batch' = <<>>
         /\ batchRecs' = <<>>
         /\ Continue(RangeNext(i, Len(urls)))

\* line 120, the update succeeds: every row with this url is set processed
MarkOk ==
    /\ pc = "mark"
    /\ store' = Update(store, batch[j].MessageBody)
    /\ chunks' = [chunks EXCEPT ![Cur].marks = Append(@, TRUE)]
    /\ MarkStep(j, Len(batch))
    /\ UNCHANGED <<urls, messageCount, attempt, callCtxDone, failures,
                   queueCount, reportedOk, tickFetch, tickStore,
                   tickCount>>
    /\ UNCHANGED shutdownVars
    /\ cancelDuring' = "none"

\* line 120, the update fails: its error is dropped, the loop goes on
MarkError ==
    /\ pc = "mark"
    /\ failures < MaxFailures
    /\ failures' = failures + 1
    /\ chunks' = [chunks EXCEPT ![Cur].marks = Append(@, FALSE)]
    /\ MarkStep(j, Len(batch))
    /\ UNCHANGED <<store, urls, messageCount, attempt, callCtxDone,
                   queueCount, reportedOk, tickFetch, tickStore,
                   tickCount>>
    /\ UNCHANGED shutdownVars
    /\ cancelDuring' = "none"

(* ----------------------------- handleShutdown -------------------------- *)

\* a termination signal arrives; handleShutdown is blocked on <-c: cancel()
SignalCancel ==
    /\ signals < MaxSignals
    /\ hsPc = "waiting"
    /\ signals' = signals + 1
    /\ hsPc' = "done"
    /\ ctxDone' = TRUE
    /\ cancelDuring' = pc
    /\ UNCHANGED <<store, failures, queueCount>>
    /\ UNCHANGED workerVars
    /\ UNCHANGED historyVars

\* a variant in which a repeated signal ends the worker at once
SignalKills ==
    /\ signals < MaxSignals
    /\ hsPc = "done"
    /\ signals' = signals + 1
    /\ pc' = "stopped"
    /\ UNCHANGED <<ctxDone, hsPc, cancelDuring>>
    /\ UNCHANGED <<store, failures, queueCount>>
    /\ UNCHANGED <<urls, i, batch, messageCount, attempt, callCtxDone, j,
                   timer, batchRecs>>
    /\ UNCHANGED historyVars

\* a termination signal arrives after handleShutdown has returned: it stays
\* in the channel c (signal.Notify does not block), nobody receives it
SignalIgnored ==
    /\ signals < MaxSignals
    /\ hsPc = "done"
    /\ signals' = signals + 1
    /\ UNCHANGED <<ctxDone, hsPc, cancelDuring>>
    /\ UNCHANGED <<store, failures, queueCount>>
    /\ UNCHANGED workerVars
    /\ UNCHANGED historyVars

(* ----------------------------- the specification ----------------------- *)

Worker ==
    \/ MainSelectDone
    \/ MainSelectDefault
    \/ PollDone
    \/ QueryError
    \/ QueryEmpty
    \/ QueryRows
    \/ LoopBody
    \/ SendAttempt
    \/ CallOk
    \/ CallRejected
    \/ CallLost
    \/ BackoffDone
    \/ SendGiveUp
    \/ MarkOk
    \/ MarkError

Next ==
    \/ Worker
    \/ Tick
    \/ SignalCancel
    \/ SignalIgnored

Spec == Init /\ [][Next]_vars

(* ----------------------------- what the claims speak of ---------------- *)

\* the chunks the range loop makes of n fetched rows: ceil(n / BatchSize)
ChunkCount(n) == (n + BatchSize - 1) \div BatchSize

\* the row ids of the k-th consecutive slice of the fetched rows
Slice(k) ==
    LET first == (k - 1) * BatchSize
        len   == Min(BatchSize, Len(urls) - first)
    IN  [m \in 1..len |-> urls[first + m].ID]

\* processURLs has returned from a tick that fetched rows
TickOver == tickFetch = "rows" /\ pc \in {"sleep", "select", "stopped"}

\* every call recorded in the sequence of results failed
AllFailed(calls) == \A m \in 1..Len(calls) : ~calls[m]

(* ----------------------------- C1 -------------------------------------- *)

\* C1: no premature marking. A row is processed only if sendBatch has
\* returned nil for a chunk that contains that row.
NoPrematureMarking ==
    \A id \in Ids : store[id].processed => id \in reportedOk

(* ----------------------------- C2 -------------------------------------- *)

\* C2: when sendBatch returned an error for a chunk, none of the chunk's
\* rows is processed during the tick: all are still pending at its end.
FailedChunkStaysPending ==
    \A k \in 1..Len(chunks) :
        chunks[k].res = "failed" =>
            \A id \in SeqSet(chunks[k].recs) : ~store[id].processed

(* ----------------------------- C3 -------------------------------------- *)

\* C3: batch size bound. The chunks handed to sendBatch in a tick are the
\* consecutive slices of the fetched rows, in fetch order, each non-empty
\* and of at most BatchSize rows, only the last one smaller; the entries of
\* the batch carry the urls of these rows; and when the tick is over there
\* are exactly ceil(N / BatchSize) of them, so each fetched row is in
\* exactly one chunk.
BatchSizeBound ==
    /\ \A k \in 1..Len(chunks) :
          /\ chunks[k].recs = Slice(k)
          /\ Len(chunks[k].recs) \in 1..BatchSize
          /\ k < Len(chunks) => Len(chunks[k].recs) = BatchSize
    /\ Len(chunks) <= ChunkCount(Len(urls))
    /\ pc \in {"sendBatch", "call", "backoff", "mark"} =>
          /\ batchRecs = chunks[Cur].recs
          /\ Len(batch) = Len(batchRecs)
          /\ \A m \in 1..Len(batch) :
                batch[m].MessageBody = store[batchRecs[m]].url
    /\ TickOver =>
          /\ Len(chunks) = ChunkCount(Len(urls))
          /\ \A n \in 1..Len(urls) :
                Cardinality({<<k, m>> \in (1..Len(chunks)) \X (1..BatchSize) :
                                /\ m <= Len(chunks[k].recs)
                                /\ chunks[k].recs[m] = urls[n].ID}) = 1

\* a tick is over that made several chunks, the last one smaller
BatchSizeBoundWitness ==
    /\ TickOver
    /\ Len(chunks) >= 2
    /\ Len(chunks[Len(chunks)].recs) < BatchSize

(* ----------------------------- C4 -------------------------------------- *)

\* C4: retry bound. For one batch sendBatch makes at most RetryAttempts
\* calls; a call that succeeds is the last one and sendBatch returns nil
\* at once; sendBatch returns an error exactly when RetryAttempts calls
\* were made and all failed.
RetryBound ==
    \A k \in 1..Len(chunks) :
        LET c == chunks[k]
        IN  /\ Len(c.calls) <= RetryAttempts
            /\ \A m \in 1..Len(c.calls) :
                  c.calls[m] => m = Len(c.calls) /\ c.res = "ok"
            /\ c.res = "ok" => Len(c.calls) >= 1 /\ c.calls[Len(c.calls)]
            /\ c.res = "failed" =>
                  Len(c.calls) = RetryAttempts /\ AllFailed(c.calls)
            /\ (Len(c.calls) = RetryAttempts /\ AllFailed(c.calls)) =>
                  \/ c.res = "failed"
                  \/ k = Cur /\ pc \in {"backoff", "sendBatch"}
            /\ c.res = "pending" => k = Cur

\* in one tick a batch was given up after RetryAttempts failed calls and
\* another was sent
RetryBoundWitness ==
    /\ \E k \in 1..Len(chunks) :
          chunks[k].res = "failed" /\ Len(chunks[k].calls) = RetryAttempts
    /\ \E k \in 1..Len(chunks) : chunks[k].res = "ok"

(* ----------------------------- C5 -------------------------------------- *)

\* C5: sendBatch sleeps only between two attempts: whenever it is in its
\* backoff sleep, another attempt for the same batch is still to come.
SleepsOnlyBetweenAttempts ==
    pc = "backoff" => attempt + 1 < RetryAttempts

(* ----------------------------- C6 -------------------------------------- *)

\* the step calls the query of pending rows
StartsQuery == pc = "select" /\ pc' = "query"

\* the step calls SendMessageBatch
StartsSubmit == pc = "sendBatch" /\ pc' = "call"

\* the step makes one db update of the loop of line 119
StartsUpdate == pc = "mark" /\ Len(chunks'[Cur].marks) > Len(chunks[Cur].marks)

\* C6: cooperative shutdown. Once ctx is cancelled the worker starts no
\* query, no update and no SendMessageBatch call (a call in flight at that
\* moment only completes).
NoCallsAfterCancel ==
    [][ctxDone => ~(StartsQuery \/ StartsSubmit \/ StartsUpdate)]_vars

(* ----------------------------- C7 -------------------------------------- *)

\* C7: if ctx is cancelled while sendBatch is in its backoff sleep, the
\* next thing sendBatch does is return the error: no more of the sleep
\* passes and no further attempt is made for the batch.
CancelEndsBackoff ==
    [][(pc = "backoff" /\ cancelDuring = "backoff") =>
          \/ UNCHANGED <<workerVars, chunks>>
          \/ chunks'[Cur].res = "failed" /\ pc' \in {"loop", "sleep"}]_vars

(* ----------------------------- C8 -------------------------------------- *)

\* C8 as stated: when a tick is over, every chunk of it was handed to
\* sendBatch and decided, and every row of every chunk that was sent is
\* processed.
SentChunksAreMarked ==
    TickOver =>
        /\ Len(chunks) = ChunkCount(Len(urls))
        /\ \A k \in 1..Len(chunks) :
              /\ chunks[k].res \in {"ok", "failed"}
              /\ chunks[k].res = "ok" =>
                    \A id \in SeqSet(chunks[k].recs) : store[id].processed

\* C8, amended: partial failure isolation. When a tick is over, every chunk
\* of it was handed to sendBatch and decided, whatever became of the chunks
\* before it; for every chunk that was sent one update was made per row,
\* and every row whose update succeeded is processed, whatever became of
\* the chunks after it; for a chunk that failed no update was made.
PartialFailureIsolation ==
    TickOver =>
        /\ Len(chunks) = ChunkCount(Len(urls))
        /\ \A k \in 1..Len(chunks) :
              LET c == chunks[k]
              IN  /\ c.res \in {"ok", "failed"}
                  /\ Len(c.calls) >= 1
                  /\ c.res = "ok" =>
                        /\ Len(c.marks) = Len(c.recs)
                        /\ \A m \in 1..Len(c.recs) :
                              c.marks[m] => store[c.recs[m]].processed
                  /\ c.res = "failed" => c.marks = <<>>

\* a tick is over in which a chunk failed between two chunks that were sent
\* and whose updates all succeeded
PartialFailureWitness ==
    /\ TickOver
    /\ \E k \in 2..(Len(chunks) - 1) :
          /\ chunks[k].res = "failed"
          /\ chunks[k - 1].res = "ok"
          /\ chunks[k + 1].res = "ok"
          /\ \A m \in 1..Len(chunks[k - 1].marks) : chunks[k - 1].marks[m]
          /\ \A m \in 1..Len(chunks[k + 1].marks) : chunks[k + 1].marks[m]

(* ----------------------------- C9 -------------------------------------- *)

\* C9: if the query of a tick fails or returns no rows, the tick makes no
\* SendMessageBatch call and no update and changes no row and nothing in
\* the queue; the worker goes to the sleep of main, from there to the
\* select, and from there, unless ctx is cancelled, to a new query.
FetchFailureSkipsTick ==
    /\ []((pc = "sleep" /\ tickFetch \in {"error", "empty"}) =>
             chunks = <<>> /\ store = tickStore /\ batch = <<>>)
    /\ [][(pc = "query" /\ pc' # "query") =>
             \/ tickFetch' = "rows"
             \/ /\ tickFetch' \in {"error", "empty"}
                /\ pc' = "sleep"
                /\ timer' = PollingInterval
                /\ UNCHANGED <<store, queueCount, messageCount, chunks>>]_vars
    /\ [][(pc = "sleep" /\ pc' # "sleep") => pc' = "select"]_vars
    /\ [][(pc = "select" /\ pc' # "select" /\ ~ctxDone) => pc' = "query"]_vars

\* the query of the tick before failed although rows are pending, and the
\* query of a new tick is in flight
FetchFailureWitness ==
    /\ pc = "query"
    /\ tickFetch = "error"
    /\ Pending(store) # {}

(* ----------------------------- C10 ------------------------------------- *)

\* The worker goroutine is always scheduled again, every call returns and
\* time passes; failures of the store and of the queue are finitely many.
FairSpec == Spec /\ WF_vars(Worker \/ Tick)

\* C10: at-least-once delivery. Unless ctx is cancelled, every row is
\* eventually in a batch that the queue accepted and is eventually processed.
AtLeastOnce ==
    \A id \in Ids :
        <>(ctxDone \/ (queueCount[id] > 0 /\ store[id].processed))

(* ----------------------------- C11 ------------------------------------- *)

\* C11: in every step no row is deleted or added, no row's url changes, and
\* a row that is processed stays processed: the flag only goes from false
\* to true.
RowsOnlyBecomeProcessed ==
    [][/\ DOMAIN store' = DOMAIN store
       /\ \A id \in Ids :
             /\ store'[id].url = store[id].url
             /\ store[id].processed => store'[id].processed]_vars

\* an update is being made for one url while rows of the other url are
\* already processed
RowsOnlyBecomeProcessedWitness ==
    /\ pc = "mark"
    /\ \E id \in Ids :
          /\ store[id].processed
          /\ store[id].url # batch[j].MessageBody
    /\ \E id \in Ids : ~store[id].processed

(* ----------------------------- C12 ------------------------------------- *)

\* every row that holds the url is processed already
AlreadyMarked(st, body) == \A id \in Ids : st[id].url = body => st[id].processed

\* C12: idempotent marking. The update for a url whose rows are already
\* processed can be made (it is no error) and leaves the table as it is,
\* and making the update twice gives the table that making it once gives.
IdempotentMarking ==
    /\ [](\A u \in Payloads :
             /\ Update(Update(store, u), u) = Update(store, u)
             /\ AlreadyMarked(Update(store, u), u)
             /\ AlreadyMarked(store, u) => Update(store, u) = store)
    /\ []((pc = "mark" /\ AlreadyMarked(store, batch[j].MessageBody)) =>
             ENABLED MarkOk)
    /\ [][(pc = "mark" /\ AlreadyMarked(store, batch[j].MessageBody)) =>
             store' = store]_vars

\* the two updates of a chunk whose two rows hold the same url both
\* succeeded: the second one met rows already processed
IdempotentMarkingWitness ==
    \E k \in 1..Len(chunks) :
        /\ Len(chunks[k].recs) >= 2
        /\ store[chunks[k].recs[1]].url = store[chunks[k].recs[2]].url
        /\ Len(chunks[k].marks) >= 2
        /\ chunks[k].marks[1]
        /\ chunks[k].marks[2]

(* ----------------------------- C13 ------------------------------------- *)

\* C13: cancellation does not interrupt a call in flight. A SendMessageBatch
\* call that is in flight when cancel() is called ends as the queue decides:
\* with err == nil and the batch in the queue, or with a failure of the
\* queue's own.
CallNotInterrupted ==
    [][(pc = "call" /\ cancelDuring = "call" /\ pc' # "call") =>
          \/ pc' = "mark" /\ queueCount' = Accept(queueCount, batchRecs)
          \/ pc' = "backoff" /\ failures' = failures + 1]_vars

(* ----------------------------- C14 ------------------------------------- *)

\* C14: if cancel() is called while main is in its polling sleep, no more of
\* the sleep passes: the worker leaves it and stops without another tick.
CancelEndsPollingSleep ==
    [][(pc = "sleep" /\ cancelDuring = "sleep") =>
          /\ timer' = timer
          /\ pc' \in {"sleep", "select", "stopped"}]_vars

(* ----------------------------- C15 ------------------------------------- *)

\* C15: once ctx is cancelled the worker eventually reaches "stopped",
\* whatever it was doing; "stopped" is terminal: from there on the worker
\* stays there, makes no query, no SendMessageBatch call and no update, and
\* changes nothing.
ShutdownReachesStopped ==
    /\ ctxDone ~> (pc = "stopped")
    /\ [][pc = "stopped" =>
             /\ pc' = "stopped"
             /\ ~(StartsQuery \/ StartsSubmit \/ StartsUpdate)
             /\ UNCHANGED <<store, queueCount, failures, workerVars,
                            historyVars>>]_vars

\* the worker has stopped after cancel() was called in the middle of a tick
\* that went on to hand a further chunk to sendBatch
ShutdownReachesStoppedWitness ==
    /\ pc = "stopped"
    /\ tickFetch = "rows"
    /\ \E k \in 1..Len(chunks) :
          /\ chunks[k].res = "failed"
          /\ Len(chunks[k].calls) = RetryAttempts
          /\ failures = 0

(* ----------------------------- C16 ------------------------------------- *)

\* C16: a failed update does not abort the tick: for a chunk that was sent
\* an update is made for every row, before the next chunk is taken up and
\* whatever the updates before it returned, and every chunk of the tick is
\* handed to sendBatch; a row whose update failed stays pending (so that a
\* later tick fetches and submits it again).
MarkFailureKeepsPending ==
    /\ \A k \in 1..Len(chunks) :
          /\ (chunks[k].res = "ok" /\ (k < Cur \/ TickOver)) =>
                Len(chunks[k].marks) = Len(chunks[k].recs)
          /\ \A m \in 1..Len(chunks[k].marks) :
                ~chunks[k].marks[m] => ~store[chunks[k].recs[m]].processed
    /\ TickOver => Len(chunks) = ChunkCount(Len(urls))

(* ----------------------------- C17 ------------------------------------- *)

\* C17: linear backoff. The sleep after the k-th failed call of a batch
\* lasts RetryBackoff * k seconds, and sendBatch leaves it only when that
\* time has passed; a batch whose calls failed twice and then succeeded was
\* sent with exactly three calls after sleeps of RetryBackoff and
\* 2 * RetryBackoff.
LinearBackoff ==
    /\ [](\A k \in 1..Len(chunks) :
             LET c == chunks[k]
             IN  /\ Len(c.sleeps) = Cardinality({m \in 1..Len(c.calls) : ~c.calls[m]})
                 /\ \A m \in 1..Len(c.sleeps) : c.sleeps[m] = RetryBackoff * m
                 /\ c.calls = <<FALSE, FALSE, TRUE>> =>
                       /\ c.res = "ok"
                       /\ c.sleeps = <<RetryBackoff, RetryBackoff * 2>>)
    /\ [][(pc = "call" /\ pc' = "backoff") =>
             timer' = RetryBackoff * Len(chunks'[Cur].calls)]_vars
    /\ [][(pc = "backoff" /\ pc' # "backoff") =>
             timer = 0 /\ pc' = "sendBatch"]_vars
    /\ [][(pc = "backoff" /\ pc' = "backoff") => timer' <= timer]_vars

\* a batch was sent by its third call
LinearBackoffWitness ==
    \E k \in 1..Len(chunks) :
        /\ chunks[k].calls = <<FALSE, FALSE, TRUE>>
        /\ chunks[k].sleeps = <<RetryBackoff, RetryBackoff * 2>>
        /\ chunks[k].res = "ok"

(* ----------------------------- C18 ------------------------------------- *)

\* everything but the count of signals
allButSignals ==
    <<store, queueCount, failures, workerVars, historyVars, ctxDone, hsPc,
      cancelDuring>>

\* C18: cancel() is called exactly once, on the first termination signal,
\* and that changes nothing but ctx; a later signal changes nothing at all:
\* ctx stays cancelled, the worker is where it was, table and queue are as
\* they were.
SingleCancellation ==
    /\ [](ctxDone <=> signals >= 1)
    /\ [](ctxDone <=> hsPc = "done")
    /\ [][ctxDone => ctxDone' /\ hsPc' = "done"]_vars
    /\ [][signals' # signals =>
             /\ signals' = signals + 1
             /\ UNCHANGED <<store, queueCount, failures, workerVars,
                            historyVars>>
             /\ IF signals = 0
                THEN ~ctxDone /\ ctxDone' /\ hsPc = "waiting"
                ELSE ctxDone /\ UNCHANGED allButSignals]_vars

\* a second signal has arrived and the worker is still in the middle of a
\* tick
SingleCancellationWitness ==
    /\ signals >= 2
    /\ ctxDone
    /\ pc \in {"call", "backoff", "mark"}

(* ----------------------------- C19 ------------------------------------- *)

\* the runs in which no update fails and every batch the queue takes is
\* reported to sendBatch as sent
CleanNext ==
    \/ MainSelectDone
    \/ MainSelectDefault
    \/ PollDone
    \/ QueryError
    \/ QueryEmpty
    \/ QueryRows
    \/ LoopBody
    \/ SendAttempt
    \/ CallOk
    \/ CallRejected
    \/ BackoffDone
    \/ SendGiveUp
    \/ MarkOk
    \/ Tick
    \/ SignalCancel
    \/ SignalIgnored

CleanSpec == Init /\ [][CleanNext]_vars

\* C19: in these runs no row is in more than one batch that the queue
\* accepted.
NoDuplicates ==
    \A id \in Ids : queueCount[id] <= 1

\* after failures of the queue every row has been accepted once and is
\* processed
NoDuplicatesWitness ==
    /\ failures >= RetryAttempts
    /\ \A id \in Ids : queueCount[id] = 1 /\ store[id].processed
    /\ Cardinality(reportedOk) >= 2

(* ----------------------------- C20 ------------------------------------- *)

\* C20: messageCount never decreases and goes up by one exactly in the
\* steps of the range loop that take a fetched row, so after a tick it is
\* up by the number of fetched rows, whatever became of the chunks; the
\* entries of a batch carry the consecutive counts, so their ids are
\* pairwise distinct and greater than every id of an earlier tick; and
\* between the attempts of sendBatch the batch does not change.
MessageCounter ==
    /\ [][messageCount' >= messageCount]_vars
    /\ [][messageCount' # messageCount =>
             /\ pc = "loop"
             /\ messageCount' = messageCount + 1]_vars
    /\ [][(pc = "loop" /\ (pc' # pc \/ i' # i)) =>
             messageCount' = messageCount + 1]_vars
    /\ [](pc = "loop" => messageCount = tickCount + i - 1)
    /\ [](pc \in {"sendBatch", "call", "backoff", "mark"} =>
             messageCount = tickCount + i)
    /\ [](TickOver => messageCount = tickCount + Len(urls))
    /\ [](\A m \in 1..Len(batch) :
             /\ batch[m].Id = <<"msg-", messageCount - Len(batch) + m>>
             /\ batch[m].MessageGroupId =
                   <<"group-", messageCount - Len(batch) + m>>
             /\ batch[m].Id[2] > tickCount
             /\ \A n \in 1..Len(batch) :
                   n # m => batch[n].Id # batch[m].Id)
    /\ [][(/\ pc \in {"sendBatch", "call", "backoff"}
           /\ pc' \in {"sendBatch", "call", "backoff"}) =>
             batch' = batch]_vars

\* in a later tick a full batch is sent again after a failed attempt
MessageCounterWitness ==
    /\ tickCount > 0
    /\ pc = "call"
    /\ attempt >= 1
    /\ Len(batch) = BatchSize

====
